---- MODULE Spec2Model ----
(***************************************************************************)
(* Model of src/server_gif.py: the handler serve_face_gif of GET /face.gif *)
(* as a state machine, one action per step of the handler.                 *)
(*                                                                         *)
(* Strings of the request are sequences of one-character strings, so that  *)
(* str.split, str.strip and int() are computed, not assumed.  The error    *)
(* texts and MIME types, which the handler only copies, are TLA+ strings.  *)
(***************************************************************************)
EXTENDS Integers, Sequences, FiniteSets, TLC

VARIABLES
    HAS_CAIRO,      \* module global, set once at import (lines 12-16)
    HAS_PIL,        \* module global, set once at import (lines 18-22)
    fault,          \* which external library call raises in this process
    args,           \* request.args: the query parameters seeds and duration
    pc,             \* position of the handler
    seeds_param,    \* local of serve_face_gif (line 113)
    duration,       \* local of serve_face_gif (line 114)
    seeds,          \* local of serve_face_gif (line 132)
    frames,         \* local of serve_face_gif (line 142)
    idx,            \* position of the for loop of line 143 in seeds
    svg_content,    \* local of serve_face_gif (line 144)
    response,       \* what the client receives
    raised,         \* text of the exception raised while handling, "" if none
    calls,          \* calls made to generate_svg, svg2png and Image.save
    phase,          \* which request of a sequence of requests is being served
    served,         \* number of requests served between the two compared
    log             \* the first request of a sequence and what it produced

vars == <<HAS_CAIRO, HAS_PIL, fault, args, pc, seeds_param, duration, seeds,
          frames, idx, svg_content, response, raised, calls, phase, served, log>>

globals == <<HAS_CAIRO, HAS_PIL, fault>>
harness == <<phase, served, log>>

----------------------------------------------------------------------------
(* Bounds of the model *)

\* longest raw seeds string of a single request
MaxLen == 4
\* longest raw seeds string of the request that is served twice
PairLen == 2
\* longest raw seeds string of a request served in between
OtherLen == 1
\* longest raw seeds string of a request that is served again with padding
NormLen == 5

----------------------------------------------------------------------------
(* Strings *)

Whitespace == {" "}
Alphabet == {"a", "b", " ", ","}
Digits == {"0", "1", "2", "3", "4", "5", "6", "7", "8", "9"}

Strings(n) == UNION {[1..k -> Alphabet] : k \in 0..n}

\* str.strip(): drop the leading, then the trailing whitespace
RECURSIVE lstrip(_)
lstrip(s) ==
    IF s # <<>> /\ Head(s) \in Whitespace THEN lstrip(Tail(s)) ELSE s

RECURSIVE rstrip(_)
rstrip(s) ==
    IF s # <<>> /\ s[Len(s)] \in Whitespace
    THEN rstrip(SubSeq(s, 1, Len(s) - 1))
    ELSE s

\* a strip that forgets the trailing whitespace
stripLeftOnly(s) == lstrip(s)

strip(s) == rstrip(lstrip(s))

\* str.split(sep): cut at every separator; n separators give n + 1 pieces
RECURSIVE split(_, _)
split(s, sep) ==
    IF \E i \in 1..Len(s) : s[i] = sep
    THEN LET i == CHOOSE i \in 1..Len(s) :
                      s[i] = sep /\ \A j \in 1..(i - 1) : s[j] # sep
         IN  <<SubSeq(s, 1, i - 1)>> \o split(SubSeq(s, i + 1, Len(s)), sep)
    ELSE <<s>>

DigitValue(c) ==
    CASE c = "0" -> 0 [] c = "1" -> 1 [] c = "2" -> 2 [] c = "3" -> 3
      [] c = "4" -> 4 [] c = "5" -> 5 [] c = "6" -> 6 [] c = "7" -> 7
      [] c = "8" -> 8 [] c = "9" -> 9

RECURSIVE DigitsValue(_)
DigitsValue(s) ==
    IF s = <<>> THEN 0
    ELSE 10 * DigitsValue(SubSeq(s, 1, Len(s) - 1)) + DigitValue(s[Len(s)])

\* int(x) of a str: surrounding whitespace, an optional sign, then digits.
\* (Python also accepts "_" between digits; no input of the model has one.)
IntBody(s) ==
    LET t == strip(s)
    IN  IF t # <<>> /\ t[1] \in {"+", "-"} THEN Tail(t) ELSE t

IsIntLiteral(s) ==
    IntBody(s) # <<>> /\ \A i \in 1..Len(IntBody(s)) : IntBody(s)[i] \in Digits

int(s) ==
    LET t == strip(s)
    IN  IF t[1] = "-" THEN 0 - DigitsValue(IntBody(s)) ELSE DigitsValue(IntBody(s))

----------------------------------------------------------------------------
(* The request *)

Absent == [present |-> FALSE, value |-> <<>>]
Given(s) == [present |-> TRUE, value |-> s]

\* request.args.get(key, default) of a str parameter
ArgsGet(param, default) == IF param.present THEN param.value ELSE default

DefaultSeeds == <<"d", "e", "f", "a", "u", "l", "t">>
DefaultDuration == 1000

DurationInputs ==
    {Absent, Given(<<"1", "0", "0", "0">>), Given(<<"5", "0", "0">>),
     Given(<<"0">>), Given(<<"-", "5">>), Given(<<"a", "b", "c">>)}

SeedInputs(n) == {Absent} \cup {Given(s) : s \in Strings(n)}

Requests(n) == [seeds : SeedInputs(n), duration : DurationInputs]

----------------------------------------------------------------------------
(* The external collaborators: generate_svg, cairosvg.svg2png, PIL *)

\* the seed for which a faulty generate_svg or svg2png raises
FaultSeed == <<"b">>
Faults == {"none", "synth", "raster", "encode"}

generate_svg(seed) == [format |-> "svg", seed |-> seed]
svg2png(svg) == [format |-> "png", width |-> 400, height |-> 480, of |-> svg]
ImageOpen(png) == [format |-> "img", of |-> png]

GenerateSvgRaises(seed) == fault = "synth" /\ seed = FaultSeed
Svg2PngRaises(svg) == fault = "raster" /\ svg.seed = FaultSeed
SaveRaises == fault = "encode"

----------------------------------------------------------------------------
(* Responses *)

NoBody == [text |-> <<>>, gif |-> <<>>]
TextBody(parts) == [text |-> parts, gif |-> <<>>]
GifBody(g) == [text |-> <<>>, gif |-> <<g>>]

Response(body, status, mimetype) ==
    [status |-> status, mimetype |-> mimetype, body |-> body]

NoResponse == Response(NoBody, 0, "")

CairoMissing ==
    Response(TextBody(<<"GIF generation requires cairosvg. Install: pip install cairosvg">>),
             500, "text/plain")

PillowMissing ==
    Response(TextBody(<<"GIF generation requires Pillow. Install: pip install pillow">>),
             500, "text/plain")

SeedsRequired ==
    Response(TextBody(<<"Error: 'seeds' parameter required (comma-separated list)">>),
             400, "text/plain")

\* the except clause of lines 168-173
ErrorGenerating(e) ==
    Response(TextBody(<<"Error generating GIF: ", e>>), 500, "text/plain")

\* what Flask answers when an exception leaves the view function
InternalServerError ==
    Response(TextBody(<<"Internal Server Error">>), 500, "text/html")

\* append_images=frames instead of frames[1:]
AppendImagesAll(fs) == fs

\* frames[1:] of line 159
AppendImages(fs) == Tail(fs)

\* the frames Image.save receives: the image it is called on, then append_images
Handed(fs) == <<fs[1]>> \o AppendImages(fs)

\* frames[0].save(output, format='GIF', save_all=True, append_images=...,
\* duration=..., loop=0, optimize=True): the frames of the file, in order
SaveGif(fs, d) ==
    [format |-> "GIF", frames |-> Handed(fs), duration |-> d, loop |-> 0]

Call(fn, seed, fs, d) == [fn |-> fn, seed |-> seed, frames |-> fs, duration |-> d]

----------------------------------------------------------------------------
(* The handler *)

NoSvg == generate_svg(<<>>)

\* a fresh activation of serve_face_gif for the request a
Enter(a) ==
    /\ args' = a
    /\ pc' = "args"
    /\ seeds_param' = <<>>
    /\ duration' = 0
    /\ seeds' = <<>>
    /\ frames' = <<>>
    /\ idx' = 0
    /\ svg_content' = NoSvg
    /\ response' = NoResponse
    /\ raised' = ""
    /\ calls' = <<>>

Return(r) == response' = r /\ pc' = "done"

\* a duration that is no integer falls back to the default instead of raising
GetArgsLenient ==
    /\ pc = "args"
    /\ seeds_param' = ArgsGet(args.seeds, DefaultSeeds)
    /\ duration' = IF args.duration.present /\ IsIntLiteral(args.duration.value)
                    THEN int(args.duration.value)
                    ELSE DefaultDuration
    /\ pc' = "cairo"
    /\ UNCHANGED <<globals, harness, args, seeds, frames, idx, svg_content,
                   response, raised, calls>>

\* lines 113-114; the int() of line 114 is outside the try block
GetArgs ==
    /\ pc = "args"
    /\ seeds_param' = ArgsGet(args.seeds, DefaultSeeds)
    /\ IF args.duration.present /\ ~IsIntLiteral(args.duration.value)
       THEN /\ raised' = "invalid literal for int() with base 10"
            /\ Return(InternalServerError)
            /\ UNCHANGED duration
       ELSE /\ duration' = IF args.duration.present
                           THEN int(args.duration.value)
                           ELSE DefaultDuration
            /\ pc' = "cairo"
            /\ UNCHANGED <<raised, response>>
    /\ UNCHANGED <<globals, harness, args, seeds, frames, idx, svg_content, calls>>

\* the check of HAS_CAIRO left out
CheckCairoSkipped ==
    /\ pc = "cairo"
    /\ pc' = "pil"
    /\ UNCHANGED <<globals, harness, args, seeds_param, duration, seeds, frames,
                   idx, svg_content, response, raised, calls>>

\* lines 116-121
CheckCairo ==
    /\ pc = "cairo"
    /\ IF ~HAS_CAIRO THEN Return(CairoMissing)
       ELSE pc' = "pil" /\ UNCHANGED response
    /\ UNCHANGED <<globals, harness, args, seeds_param, duration, seeds, frames,
                   idx, svg_content, raised, calls>>

\* lines 123-128
CheckPIL ==
    /\ pc = "pil"
    /\ IF ~HAS_PIL THEN Return(PillowMissing)
       ELSE pc' = "split" /\ UNCHANGED response
    /\ UNCHANGED <<globals, harness, args, seeds_param, duration, seeds, frames,
                   idx, svg_content, raised, calls>>

\* [s.strip() for s in seeds_param.split(',')]
Normalize(raw) ==
    LET pieces == split(raw, ",")
    IN  [i \in 1..Len(pieces) |-> strip(pieces[i])]

\* line 132
ParseSeeds ==
    /\ pc = "split"
    /\ seeds' = Normalize(seeds_param)
    /\ pc' = "validate"
    /\ UNCHANGED <<globals, harness, args, seeds_param, duration, frames, idx,
                   svg_content, response, raised, calls>>

\* only "not seeds": the first token is not looked at
SeedsMissingListOnly(ss) == ss = <<>>

\* not seeds or not seeds[0]
SeedsMissing(ss) == ss = <<>> \/ ss[1] = <<>>

\* lines 134-143: the validation, frames = [], and the first seed of the loop
ValidateSeeds ==
    /\ pc = "validate"
    /\ IF SeedsMissing(seeds)
       THEN Return(SeedsRequired) /\ UNCHANGED <<frames, idx>>
       ELSE /\ frames' = <<>>
            /\ idx' = 1
            /\ pc' = "synth"
            /\ UNCHANGED response
    /\ UNCHANGED <<globals, harness, args, seeds_param, duration, seeds,
                   svg_content, raised, calls>>

\* line 144, and the except clause when generate_svg raises
Synthesize ==
    /\ pc = "synth"
    /\ calls' = Append(calls, Call("generate_svg", seeds[idx], <<>>, 0))
    /\ IF GenerateSvgRaises(seeds[idx])
       THEN /\ raised' = "generate_svg failed"
            /\ Return(ErrorGenerating("generate_svg failed"))
            /\ UNCHANGED svg_content
       ELSE /\ svg_content' = generate_svg(seeds[idx])
            /\ pc' = "raster"
            /\ UNCHANGED <<raised, response>>
    /\ UNCHANGED <<globals, harness, args, seeds_param, duration, seeds, frames, idx>>

\* a rasterizer failure switches the module global HAS_CAIRO off
RasterizeDisabling ==
    /\ pc = "raster"
    /\ calls' = Append(calls, Call("svg2png", svg_content.seed, <<>>, 0))
    /\ IF Svg2PngRaises(svg_content)
       THEN /\ raised' = "svg2png failed"
            /\ Return(ErrorGenerating("svg2png failed"))
            /\ HAS_CAIRO' = FALSE
            /\ UNCHANGED <<frames, idx>>
       ELSE /\ frames' = Append(frames, ImageOpen(svg2png(svg_content)))
            /\ idx' = idx + 1
            /\ pc' = IF idx + 1 > Len(seeds) THEN "save" ELSE "synth"
            /\ UNCHANGED <<HAS_CAIRO, raised, response>>
    /\ UNCHANGED <<HAS_PIL, fault, harness, args, seeds_param, duration, seeds,
                   svg_content>>

\* lines 145-151 and the loop's step, and the except clause when svg2png raises
Rasterize ==
    /\ pc = "raster"
    /\ calls' = Append(calls, Call("svg2png", svg_content.seed, <<>>, 0))
    /\ IF Svg2PngRaises(svg_content)
       THEN /\ raised' = "svg2png failed"
            /\ Return(ErrorGenerating("svg2png failed"))
            /\ UNCHANGED <<frames, idx>>
       ELSE /\ frames' = Append(frames, ImageOpen(svg2png(svg_content)))
            /\ idx' = idx + 1
            /\ pc' = IF idx + 1 > Len(seeds) THEN "save" ELSE "synth"
            /\ UNCHANGED <<raised, response>>
    /\ UNCHANGED <<globals, harness, args, seeds_param, duration, seeds, svg_content>>

\* lines 154-166, and the except clause when save raises
Encode ==
    /\ pc = "save"
    /\ calls' = Append(calls, Call("save", <<>>, Handed(frames), duration))
    /\ IF SaveRaises
       THEN /\ raised' = "save failed"
            /\ Return(ErrorGenerating("save failed"))
       ELSE /\ Return(Response(GifBody(SaveGif(frames, duration)), 200, "image/gif"))
            /\ UNCHANGED raised
    /\ UNCHANGED <<globals, harness, args, seeds_param, duration, seeds, frames,
                   idx, svg_content>>

Handler ==
    \/ GetArgs
    \/ CheckCairo
    \/ CheckPIL
    \/ ParseSeeds
    \/ ValidateSeeds
    \/ Synthesize
    \/ Rasterize
    \/ Encode

----------------------------------------------------------------------------
(* One request, any environment *)

NoLog == [set |-> FALSE, args |-> [seeds |-> Absent, duration |-> Absent],
          seeds |-> <<>>, response |-> NoResponse, globals |-> <<>>]

Start(reqs) ==
    /\ HAS_CAIRO \in BOOLEAN
    /\ HAS_PIL \in BOOLEAN
    /\ fault \in Faults
    /\ args \in reqs
    /\ pc = "args"
    /\ seeds_param = <<>>
    /\ duration = 0
    /\ seeds = <<>>
    /\ frames = <<>>
    /\ idx = 0
    /\ svg_content = NoSvg
    /\ response = NoResponse
    /\ raised = ""
    /\ calls = <<>>
    /\ phase = "first"
    /\ served = 0
    /\ log = NoLog

Init == Start(Requests(MaxLen))

Next == Handler

Spec == Init /\ [][Next]_vars

----------------------------------------------------------------------------
(* A request served twice by the same process, another one in between *)

Logged ==
    IF phase = "first"
    THEN [set |-> TRUE, args |-> args, seeds |-> seeds, response |-> response,
          globals |-> <<HAS_CAIRO, HAS_PIL>>]
    ELSE log

PairDurations == {Absent, Given(<<"5", "0", "0">>), Given(<<"a", "b", "c">>)}
PairRequests == [seeds : SeedInputs(PairLen), duration : PairDurations]
OtherRequests == [seeds : SeedInputs(OtherLen), duration : {Absent}]

\* the process serves some other request after the first
Between ==
    /\ pc = "done"
    /\ phase = "first"
    /\ log' = Logged
    /\ phase' = "between"
    /\ served' = served + 1
    /\ \E a \in OtherRequests : Enter(a)
    /\ UNCHANGED globals

\* the process serves the first request again
Replay ==
    /\ pc = "done"
    /\ phase \in {"first", "between"}
    /\ log' = Logged
    /\ phase' = "second"
    /\ Enter(Logged.args)
    /\ UNCHANGED <<globals, served>>

InitDet == Start(PairRequests)

NextDet == Handler \/ Between \/ Replay

SpecDet == InitDet /\ [][NextDet]_vars

----------------------------------------------------------------------------
(* A request served again with one more blank around one of its tokens *)

Example == <<" ", "a", " ", ",", " ", "b", " ">>

InsertAt(s, i, c) == SubSeq(s, 1, i) \o <<c>> \o SubSeq(s, i + 1, Len(s))

\* only blanks lie between the place after s[i] and the comma or end before it
BlankToTheLeft(s, i) ==
    \E j \in 0..i :
        /\ IF j = 0 THEN TRUE ELSE s[j] = ","
        /\ \A k \in (j + 1)..i : s[k] \in Whitespace

\* only blanks lie between the place after s[i] and the comma or end after it
BlankToTheRight(s, i) ==
    \E j \in (i + 1)..(Len(s) + 1) :
        /\ IF j = Len(s) + 1 THEN TRUE ELSE s[j] = ","
        /\ \A k \in (i + 1)..(j - 1) : s[k] \in Whitespace

\* the places of s where one more blank lies around a token, not inside one
PadPlaces(s) == {i \in 0..Len(s) : BlankToTheLeft(s, i) \/ BlankToTheRight(s, i)}

ReplayPadded ==
    /\ pc = "done"
    /\ phase = "first"
    /\ args.seeds.present
    /\ log' = Logged
    /\ phase' = "second"
    /\ \E i \in PadPlaces(args.seeds.value) :
          Enter([args EXCEPT !.seeds = Given(InsertAt(args.seeds.value, i, " "))])
    /\ UNCHANGED <<globals, served>>

InitWs ==
    /\ Start([seeds : {Given(s) : s \in Strings(NormLen) \cup {Example}},
              duration : {Absent}])
    /\ HAS_CAIRO
    /\ HAS_PIL
    /\ fault = "none"

NextWs == Handler \/ ReplayPadded

SpecWs == InitWs /\ [][NextWs]_vars

----------------------------------------------------------------------------
(* Vocabulary of the properties *)

Done == pc = "done"
BothCapabilities == HAS_CAIRO /\ HAS_PIL
DurationOk == ~args.duration.present \/ IsIntLiteral(args.duration.value)

\* line 132 has been executed for the request being served
Parsed ==
    \/ pc \in {"validate", "synth", "raster", "save"}
    \/ Done /\ BothCapabilities /\ DurationOk

Trimmed(t) == t = <<>> \/ (t[1] \notin Whitespace /\ t[Len(t)] \notin Whitespace)

Frame(seed) == ImageOpen(svg2png(generate_svg(seed)))

SaveCalls == {i \in 1..Len(calls) : calls[i].fn = "save"}
SynthCalls == {i \in 1..Len(calls) : calls[i].fn = "generate_svg"}

IsAnimation(r) ==
    /\ r.status = 200
    /\ r.mimetype = "image/gif"
    /\ r.body.text = <<>>
    /\ Len(r.body.gif) = 1

IsErrorText(r) ==
    /\ r.status \in {400, 500}
    /\ r.mimetype = "text/plain"
    /\ r.body.gif = <<>>

----------------------------------------------------------------------------
(* C1: with both capabilities present (and a duration that is an integer), *)
(* a request without seeds and a request with seeds= are both served as    *)
(* the single seed "default" and are not rejected; seeds=, is answered     *)
(* with the 400 response.                                                  *)
C1_EmptySeedsDefault ==
    (BothCapabilities /\ DurationOk) =>
        /\ (args.seeds \in {Absent, Given(<<>>)}) =>
              /\ Parsed => seeds = <<DefaultSeeds>>
              /\ Done => response # SeedsRequired
              /\ (Done /\ fault = "none") => IsAnimation(response)
        /\ (args.seeds = Given(<<",">>) /\ Done) => response = SeedsRequired

(* C1 as amended: only the request without a seeds parameter is served as  *)
(* the seed "default"; seeds= and seeds=, are both answered with the 400   *)
(* response.                                                               *)
C1_EmptySeedsRejected ==
    (BothCapabilities /\ DurationOk) =>
        /\ (args.seeds = Absent) =>
              /\ Parsed => seeds = <<DefaultSeeds>>
              /\ Done => response # SeedsRequired
              /\ (Done /\ fault = "none") => IsAnimation(response)
        /\ (args.seeds \in {Given(<<>>), Given(<<",">>)} /\ Done) =>
              response = SeedsRequired

C1_Witness ==
    /\ Done
    /\ BothCapabilities
    /\ DurationOk
    /\ args.seeds = Given(<<>>)
    /\ response = SeedsRequired

(* C2: every exception raised while a request is handled is answered with  *)
(* 500, text/plain, "Error generating GIF: " and the exception's text.     *)
C2_FailuresAreWrapped ==
    (Done /\ raised # "") => response = ErrorGenerating(raised)

C4_OrderPreserved ==
    /\ \A i \in SaveCalls :
          /\ Len(calls[i].frames) = Len(seeds)
          /\ \A k \in 1..Len(seeds) : calls[i].frames[k] = Frame(seeds[k])
    /\ (Done /\ response.status = 200) =>
          /\ IsAnimation(response)
          /\ response.body.gif[1].frames = [k \in 1..Len(seeds) |-> Frame(seeds[k])]
    /\ (Done /\ response.status = 200 /\ args.seeds = Given(<<"a", ",", "b">>)) =>
          response.body.gif[1].frames = <<Frame(<<"a">>), Frame(<<"b">>)>>

C4_Witness ==
    /\ Done
    /\ response.status = 200
    /\ args.seeds = Given(<<"b", ",", "a">>)
    /\ seeds = << <<"b">>, <<"a">> >>
    /\ SaveCalls = {5}

(* C5: every seed passed to generate_svg is a trimmed, non-empty string,   *)
(* and so is every token of the seed list of a request that was not        *)
(* rejected with the 400 response.                                         *)
C5_SeedsTrimmedNonEmpty ==
    /\ \A i \in SynthCalls : calls[i].seed # <<>> /\ Trimmed(calls[i].seed)
    /\ pc \in {"synth", "raster", "save"} =>
          \A k \in 1..Len(seeds) : seeds[k] # <<>> /\ Trimmed(seeds[k])

(* C6: whenever Image.save is called the seed list is non-empty and the    *)
(* duration it receives is positive and is the request's duration, or 1000 *)
(* when the request has none.                                              *)
C6_DurationPositive ==
    \A i \in SaveCalls :
        /\ seeds # <<>>
        /\ calls[i].duration > 0
        /\ calls[i].duration =
              IF args.duration.present THEN int(args.duration.value) ELSE 1000

(* C7: generate_svg and then svg2png are called for each seed in order,    *)
(* Image.save once, after all of them, with one frame per seed and never   *)
(* after a failure; every response is a complete animation (200,           *)
(* image/gif, one frame per seed) or an error (400 or 500, text/plain).    *)
C7_NoPartialResults ==
    /\ Len(calls) <= 2 * Len(seeds) + 1
    /\ \A j \in 1..Len(calls) :
          IF j = 2 * Len(seeds) + 1
          THEN calls[j].fn = "save" /\ Len(calls[j].frames) = Len(seeds)
          ELSE /\ calls[j].fn = IF j % 2 = 1 THEN "generate_svg" ELSE "svg2png"
               /\ calls[j].seed = seeds[(j + 1) \div 2]
    /\ raised \in {"generate_svg failed", "svg2png failed"} => SaveCalls = {}
    /\ Done =>
          \/ /\ IsAnimation(response)
             /\ Len(response.body.gif[1].frames) = Len(seeds)
             /\ SaveCalls = {2 * Len(seeds) + 1}
          \/ IsErrorText(response)

(* C8: a request served again by the same process, whatever was served in  *)
(* between, gets the response it got the first time, and the module        *)
(* globals are what they were when the first request was answered.         *)
C8_Deterministic ==
    /\ (phase = "second" /\ Done) => response = log.response
    /\ log.set => log.globals = <<HAS_CAIRO, HAS_PIL>>

C8_Witness ==
    /\ phase = "second"
    /\ served = 1
    /\ Done
    /\ IsAnimation(response)
    /\ Len(seeds) = 2

----------------------------------------------------------------------------
(* What the normalized list of a raw string is, said without split and strip *)

Commas(s) == Cardinality({i \in 1..Len(s) : s[i] = ","})

RECURSIVE Join(_)
Join(ss) ==
    IF Len(ss) <= 1 THEN (IF ss = <<>> THEN <<>> ELSE ss[1])
    ELSE ss[1] \o <<",">> \o Join(Tail(ss))

\* the blanks of s that lie around a token: only blanks separate them from the
\* comma or end before them, or from the comma or end after them
Padding(s) ==
    {i \in 1..Len(s) :
        s[i] \in Whitespace /\ (BlankToTheLeft(s, i) \/ BlankToTheRight(s, i - 1))}

\* s without its padding
Unpadded(s) ==
    LET kept == SelectSeq([i \in 1..Len(s) |-> i], LAMBDA i : i \notin Padding(s))
    IN  [n \in 1..Len(kept) |-> s[kept[n]]]

NormalizedFrom(raw, ss) ==
    /\ Len(ss) = Commas(raw) + 1
    /\ \A k \in 1..Len(ss) :
          /\ Trimmed(ss[k])
          /\ \A i \in 1..Len(ss[k]) : ss[k][i] # ","
    /\ Join(ss) = Unpadded(raw)

(* C9: the seed list is the pieces of the raw string between its commas,   *)
(* in order, each without its surrounding whitespace; " a , b " gives      *)
(* ["a","b"]; a raw string with one more blank around a token gives the    *)
(* same seed list and the same response.                                   *)
C9_WhitespaceTolerance ==
    /\ Parsed => NormalizedFrom(seeds_param, seeds)
    /\ (Parsed /\ args.seeds = Given(Example)) => seeds = << <<"a">>, <<"b">> >>
    /\ (Parsed /\ phase = "second") =>
          /\ args.seeds # log.args.seeds
          /\ seeds = log.seeds
    /\ (Done /\ phase = "second") => response = log.response

C9_Witness ==
    /\ phase = "second"
    /\ Done
    /\ IsAnimation(response)
    /\ seeds = << <<"a">>, <<"b">> >>
    /\ args.seeds = Given(<<"a", " ", ",", " ", "b">>)

----------------------------------------------------------------------------
(* C10: a missing capability is answered before the seeds are looked at,   *)
(* for every request whose duration is absent or an integer; the 400       *)
(* response needs both capabilities; a duration that is no integer fails   *)
(* before either capability message can be produced.                       *)
C10_ErrorPrecedence ==
    /\ (Done /\ DurationOk /\ ~BothCapabilities) =>
          /\ response = IF ~HAS_CAIRO THEN CairoMissing ELSE PillowMissing
          /\ seeds = <<>>
    /\ response = SeedsRequired => BothCapabilities
    /\ (Done /\ ~DurationOk) =>
          /\ response \notin {CairoMissing, PillowMissing}
          /\ raised # ""
          /\ seeds = <<>>
    /\ ~DurationOk => pc \in {"args", "done"}

C10_Witness ==
    /\ Done
    /\ ~HAS_CAIRO
    /\ DurationOk
    /\ args.seeds = Given(<<",">>)
    /\ response = CairoMissing

====
